---- MODULE Spec2Model ----
(***************************************************************************)
(* A model of the LiteLLM plugin collection:                               *)
(*   src/litellm/combine_system_messages_plugin.py                         *)
(*       CombineSystemMessagesPlugin.async_pre_call_hook                   *)
(*   src/litellm/remove_name_plugin.py                                     *)
(*       RemoveNamePlugin.async_pre_call_hook                              *)
(*   src/litellm/custom_logger.py                                          *)
(*       PreAPICallLogger.log_pre_api_call                                 *)
(*                                                                         *)
(* A request payload is a Python dict.  The hooks mutate it in place and   *)
(* return the same object, so the model keeps one payload per request      *)
(* (data[r]) and each hook action rewrites it.  Python values of           *)
(* different types are tagged records here, so that they can be compared   *)
(* the way Python's == compares them.                                      *)
(***************************************************************************)
EXTENDS Naturals, Sequences, FiniteSets, TLC

VARIABLES
    data,     \* data[r]: the contents of request r's payload dict
    input,    \* input[r]: the payload as the host built it (never changed)
    pre,      \* pre[r]: the payload just before the last hook call on r
    last,     \* last[r]: the last hook call on r and how it ended
    hist,     \* hist[r]: the hooks called on r so far, in order
    log,      \* log[r]: the lines the calls on r wrote to the logging sink
    pc,       \* pc[r]: "pre_call", "dispatched" or "failed"
    plugins   \* the attributes of the module-level plugin instances

vars == <<data, input, pre, last, hist, log, pc, plugins>>

(***************************************************************************)
(* Bounds of the model.                                                    *)
(***************************************************************************)
\* the longest `messages` list of a request checked alone
MaxLen == 3
\* the most pre-call hook invocations on one request
MaxCalls == 2
\* the longest `messages` list of two requests checked together
ConcLen == 2

(***************************************************************************)
(* Python values.                                                          *)
(***************************************************************************)
\* a str
Str(s) == [t |-> "str", v |-> s]
\* structured content: a list holding one text part
Parts(s) == [t |-> "parts", v |-> s]
\* None, as dict.get returns it for a missing key
None == [t |-> "none", v |-> ""]

NoFields == [x \in {} |-> None]
\* a dict entry of `messages`
Dict(f) == [k |-> "dict", f |-> f]
\* a bytes entry of `messages`: it has no .get and json cannot serialize it
BytesEntry == [k |-> "bytes", f |-> NoFields]
\* a str entry of `messages`: it has no .get
StrEntry == [k |-> "str", f |-> NoFields]
\* an entry of `messages` that is the `messages` list itself (a cycle)
SelfEntry == [k |-> "self", f |-> NoFields]

\* a top-level value of the payload: a list, a str or a number
ListTop(items) == [t |-> "list", s |-> "", items |-> items]
StrTop(s) == [t |-> "str", s |-> s, items |-> <<>>]
NumTop(s) == [t |-> "num", s |-> s, items |-> <<>>]
NoneTop == [t |-> "none", s |-> "", items |-> <<>>]

\* dict.get(key, default)
Get(f, key, default) == IF key \in DOMAIN f THEN f[key] ELSE default

\* d[key] = value
SetItem(f, key, value) ==
    [x \in DOMAIN f \cup {key} |-> IF x = key THEN value ELSE f[x]]

\* d.pop(key, None)
Pop(f, key) == [x \in DOMAIN f \ {key} |-> f[x]]

\* isinstance(messages, list)
IsList(messages) == messages.t = "list"

\* isinstance(message, dict)
IsDict(message) == message.k = "dict"

CallTypes ==
    {"completion", "text_completion", "embeddings", "image_generation",
     "moderation", "audio_transcription"}

(***************************************************************************)
(* CombineSystemMessagesPlugin.async_pre_call_hook                         *)
(***************************************************************************)
\* msg.get("role") == "system"
IsSystem(msg) == Get(msg.f, "role", None) = Str("system")

\* the positions in `messages` of the entries system_messages holds, in order
SystemIndices(items) ==
    SelectSeq([i \in 1..Len(items) |-> i], LAMBDA i : IsSystem(items[i]))

ShouldCombineOffByOne(system_messages) == Len(system_messages) > 0

\* len(system_messages) > 1
ShouldCombine(system_messages) == Len(system_messages) > 1

RECURSIVE Join(_)
\* "\n".join(strs)
Join(strs) ==
    IF Len(strs) = 0 THEN ""
    ELSE IF Len(strs) = 1 THEN strs[1]
    ELSE strs[1] \o "\n" \o Join(Tail(strs))

CombinedContentSkipsFirst(contents) == Join(Tail(contents))

\* "\n".join(msg.get("content", "") for msg in system_messages), the
\* contents being strs
CombinedContent(contents) == Join(contents)

LaterSystemMessagesSkipsTwo(system_messages) ==
    IF Len(system_messages) < 2 THEN <<>> ELSE Tail(Tail(system_messages))

\* system_messages[1:]
LaterSystemMessages(system_messages) == Tail(system_messages)

\* msg in lst, by ==
InList(msg, lst) == \E j \in DOMAIN lst : lst[j] = msg

SetMessagesDropsOthers(payload, items) == ("messages" :> ListTop(items))

\* data["messages"] = items
SetMessages(payload, items) == SetItem(payload, "messages", ListTop(items))

\* how the body of a try block ended: the payload as it then is, and the
\* exception it raised ("none": it reached its return)
Returned(payload) == [data |-> payload, exc |-> "none"]
Raises(payload, exc) == [data |-> payload, exc |-> exc]

\* the body of the try block, lines 88-103
CombineBody(payload) ==
    LET messages == Get(payload, "messages", NoneTop)
        items == messages.items
    IN  IF ~IsList(messages) THEN Returned(payload)
        ELSE IF \E i \in DOMAIN items : ~IsDict(items[i])
        THEN \* msg.get on an entry that is no dict
             Raises(payload, "AttributeError")
        ELSE LET sys == SystemIndices(items)
                 contents == [j \in 1..Len(sys) |->
                                 Get(items[sys[j]].f, "content", Str(""))]
             IN  IF ~ShouldCombine(sys) THEN Returned(payload)
                 ELSE IF \E j \in DOMAIN contents : contents[j].t # "str"
                 THEN \* str.join on an item that is no str
                      Raises(payload, "TypeError")
                 ELSE LET combined_content ==
                              CombinedContent(
                                  [j \in 1..Len(sys) |-> contents[j].v])
                          \* system_messages[0] is the object in `messages`
                          items1 == [items EXCEPT ![sys[1]] =
                                        Dict(SetItem(@.f, "content",
                                                     Str(combined_content)))]
                          system_messages ==
                              [j \in 1..Len(sys) |-> items1[sys[j]]]
                          later == LaterSystemMessages(system_messages)
                      IN  Returned(SetMessages(payload,
                              SelectSeq(items1,
                                        LAMBDA msg : ~InList(msg, later))))

CombineCatchesTypeErrorOnly(exc) == exc = "TypeError"

\* except Exception
CombineCatches(exc) == exc # "none"

\* the whole hook: what it leaves in the payload, the exception its try
\* block raised, the exception that reached the caller, the lines it logged
CombineHook(payload, call_type) ==
    LET body == CombineBody(payload)
    IN  IF body.exc = "none"
        THEN [data |-> body.data, exc |-> "none", raised |-> "none",
              logs |-> <<>>]
        ELSE IF CombineCatches(body.exc)
        THEN [data |-> body.data, exc |-> body.exc, raised |-> "none",
              logs |-> <<"ERROR Error processing messages: " \o body.exc>>]
        ELSE [data |-> body.data, exc |-> body.exc, raised |-> body.exc,
              logs |-> <<>>]

(***************************************************************************)
(* RemoveNamePlugin.async_pre_call_hook                                    *)
(***************************************************************************)
NeedsPopUserOnly(message) ==
    /\ IsDict(message)
    /\ "name" \in DOMAIN message.f
    /\ Get(message.f, "role", None) = Str("user")

\* isinstance(message, dict) and "name" in message
NeedsPop(message) == IsDict(message) /\ "name" \in DOMAIN message.f

RemoveNameLoopDropsNonDict(items) ==
    SelectSeq([i \in DOMAIN items |->
                  IF NeedsPop(items[i]) THEN Dict(Pop(items[i].f, "name"))
                  ELSE items[i]],
              IsDict)

\* for message in messages: ... message.pop("name", None)
\* (the list object stays the same; its dict entries are changed in place)
RemoveNameLoop(items) ==
    [i \in DOMAIN items |->
        IF NeedsPop(items[i]) THEN Dict(Pop(items[i].f, "name"))
        ELSE items[i]]

\* the body of the try block, lines 82-93
RemoveNameBody(payload) ==
    LET messages == Get(payload, "messages", NoneTop)
    IN  IF ~IsList(messages) THEN Returned(payload)
        ELSE Returned([payload EXCEPT
                 !["messages"] = ListTop(RemoveNameLoop(messages.items))])

\* except Exception
RemoveNameCatches(exc) == exc # "none"

\* the whole hook, as CombineHook; its handler logs nothing
RemoveNameHook(payload, call_type) ==
    LET body == RemoveNameBody(payload)
    IN  IF body.exc = "none"
        THEN [data |-> body.data, exc |-> "none", raised |-> "none",
              logs |-> <<>>]
        ELSE IF RemoveNameCatches(body.exc)
        THEN [data |-> body.data, exc |-> body.exc, raised |-> "none",
              logs |-> <<>>]
        ELSE [data |-> body.data, exc |-> body.exc, raised |-> body.exc,
              logs |-> <<>>]

(***************************************************************************)
(* PreAPICallLogger.log_pre_api_call                                       *)
(*                                                                         *)
(* Renderings keep the keys in the order role, content, name and leave out *)
(* the line breaks and indentation of indent=2.                            *)
(***************************************************************************)
FieldOrder == <<"role", "content", "name">>

RECURSIVE Commas(_)
\* ", ".join(strs)
Commas(strs) ==
    IF Len(strs) = 0 THEN ""
    ELSE IF Len(strs) = 1 THEN strs[1]
    ELSE strs[1] \o ", " \o Commas(Tail(strs))

\* a str or a structured content, with q as the quote character
RenderValue(val, q) ==
    IF val.t = "str" THEN q \o val.v \o q
    ELSE "[{" \o q \o "type" \o q \o ": " \o q \o "text" \o q \o ", "
              \o q \o "text" \o q \o ": " \o q \o val.v \o q \o "}]"

\* a dict entry of `messages`
RenderDict(f, q) ==
    LET keys == SelectSeq(FieldOrder, LAMBDA key : key \in DOMAIN f)
    IN  "{" \o Commas([i \in DOMAIN keys |->
                          q \o keys[i] \o q \o ": " \o RenderValue(f[keys[i]], q)])
            \o "}"

\* the exception json.dumps raises on the first entry it cannot write:
\* TypeError for an object that is not serializable, ValueError for a
\* container that holds itself ("Circular reference detected")
DumpsException(items) ==
    LET bad == SelectSeq(items, LAMBDA e : e.k \in {"bytes", "self"})
    IN  IF Len(bad) = 0 THEN "none"
        ELSE IF bad[1].k = "bytes" THEN "TypeError"
        ELSE "ValueError"

\* json.dumps(messages, indent=2): the text, or the exception it raises
JsonDumps(messages) ==
    IF messages.t = "none" THEN [exc |-> "none", text |-> "null"]
    ELSE IF messages.t = "str"
    THEN [exc |-> "none", text |-> "\"" \o messages.s \o "\""]
    ELSE IF messages.t = "num" THEN [exc |-> "none", text |-> messages.s]
    ELSE IF DumpsException(messages.items) # "none"
    THEN [exc |-> DumpsException(messages.items), text |-> ""]
    ELSE [exc |-> "none",
          text |-> "[" \o Commas([i \in DOMAIN messages.items |->
                                    IF IsDict(messages.items[i])
                                    THEN RenderDict(messages.items[i].f, "\"")
                                    ELSE "\"junk\""])
                       \o "]"]

\* f"{messages}"
Format(messages) ==
    IF messages.t = "none" THEN "None"
    ELSE IF messages.t \in {"str", "num"} THEN messages.s
    ELSE "[" \o Commas([i \in DOMAIN messages.items |->
                 IF IsDict(messages.items[i])
                 THEN RenderDict(messages.items[i].f, "'")
                 ELSE IF messages.items[i].k = "str" THEN "'junk'"
                 ELSE IF messages.items[i].k = "bytes" THEN "b'junk'"
                 ELSE "[...]"])
             \o "]"

\* except TypeError
LoggerCatches(exc) == exc = "TypeError"

\* the whole method: the lines it logs and the exception that reaches the
\* caller; it assigns to none of its arguments
LogPreApiCall(model, messages, kwargs) ==
    LET first == "INFO Pre-API Call for model: " \o model.s
        pretty_messages == JsonDumps(messages)
    IN  IF pretty_messages.exc = "none"
        THEN [exc |-> "none", raised |-> "none",
              logs |-> <<first, "INFO Messages: " \o pretty_messages.text>>]
        ELSE IF LoggerCatches(pretty_messages.exc)
        THEN [exc |-> pretty_messages.exc, raised |-> "none",
              logs |-> <<first,
                         "INFO Messages (could not serialize to JSON): "
                             \o Format(messages)>>]
        ELSE [exc |-> pretty_messages.exc, raised |-> pretty_messages.exc,
              logs |-> <<first>>]

(***************************************************************************)
(* The payloads the host hands to the hooks.                               *)
(***************************************************************************)
Msg(role, content) == Dict(("role" :> Str(role)) @@ ("content" :> content))

Named(message, name) == Dict(SetItem(message.f, "name", Str(name)))

\* the entries a `messages` list is drawn from
Entries ==
    { Msg("system", Str("A")),
      Msg("system", Str("B")),
      Dict("role" :> Str("system")),
      Msg("system", Parts("A")),
      Named(Msg("system", Str("A")), "bob"),
      Msg("user", Str("A")),
      Named(Msg("user", Str("A")), "bob"),
      Named(Dict("content" :> Str("B")), "bob"),
      StrEntry,
      BytesEntry,
      SelfEntry }

\* the entries of the lists of two requests checked together
ConcEntries ==
    { Named(Msg("system", Str("A")), "bob"),
      Msg("system", Str("B")) }

SeqsUpTo(S, n) == UNION {[1..k -> S] : k \in 0..n}

\* the request parameters beside `messages`
OtherParams == ("model" :> StrTop("gpt-4")) @@ ("temperature" :> NumTop("0.2"))

\* payloads without `messages`, with a `messages` that is no list, and with
\* every list of at most n entries
Payloads(entries, n) ==
    {OtherParams, SetItem(OtherParams, "messages", StrTop("hello"))}
        \cup {SetItem(OtherParams, "messages", ListTop(l)) :
                 l \in SeqsUpTo(entries, n)}

\* self.name of the two module-level instances (proxy_handler_instance)
PluginInstances ==
    [combine |-> [name |-> "combine_system_messages_plugin"],
     remove |-> [name |-> "remove_name_plugin"]]

NoCall == [hook |-> "none", exc |-> "none", raised |-> "none"]

InitWith(reqs, payloads) ==
    /\ input \in [reqs -> payloads]
    /\ data = input
    /\ pre = input
    /\ last = [r \in reqs |-> NoCall]
    /\ hist = [r \in reqs |-> <<>>]
    /\ log = [r \in reqs |-> <<>>]
    /\ pc = [r \in reqs |-> "pre_call"]
    /\ plugins = PluginInstances

\* the requests in flight
Requests == {1, 2}

\* one request
Init == InitWith({1}, Payloads(Entries, MaxLen))

\* two requests in flight at once, sharing the plugin instances
InitConc == InitWith(Requests, Payloads(ConcEntries, ConcLen))

(***************************************************************************)
(* The host's calls.  A hook has no await in it, so a call runs to its end *)
(* before the event loop runs another.                                     *)
(***************************************************************************)
WritePayloadShared(payloads, r, payload) == [q \in DOMAIN payloads |-> payload]

\* the hook works on the dict the call was given, which is request r's
WritePayload(payloads, r, payload) == [payloads EXCEPT ![r] = payload]

\* what a pre-call hook's invocation on request r leaves behind
PreCall(r, hook, res) ==
    /\ data' = WritePayload(data, r, res.data)
    /\ pre' = [pre EXCEPT ![r] = data[r]]
    /\ last' = [last EXCEPT ![r] =
                   [hook |-> hook, exc |-> res.exc, raised |-> res.raised]]
    /\ hist' = [hist EXCEPT ![r] = Append(@, hook)]
    /\ log' = [log EXCEPT ![r] = @ \o res.logs]
    /\ pc' = [pc EXCEPT ![r] = IF res.raised = "none" THEN @ ELSE "failed"]
    /\ UNCHANGED <<input, plugins>>

\* await combine_system_messages_plugin.async_pre_call_hook(..., data, call_type)
CombineSystemMessages(r) ==
    /\ r \in DOMAIN data
    /\ pc[r] = "pre_call"
    /\ Len(hist[r]) < MaxCalls
    /\ \E call_type \in CallTypes :
          PreCall(r, "combine", CombineHook(data[r], call_type))

\* await remove_name_plugin.async_pre_call_hook(..., data, call_type)
RemoveName(r) ==
    /\ r \in DOMAIN data
    /\ pc[r] = "pre_call"
    /\ Len(hist[r]) < MaxCalls
    /\ \E call_type \in CallTypes :
          PreCall(r, "remove", RemoveNameHook(data[r], call_type))

\* pre_api_call_logger.log_pre_api_call(model, messages, kwargs), the last
\* call before the request is dispatched
LogPreApiCallStep(r) ==
    /\ r \in DOMAIN data
    /\ pc[r] = "pre_call"
    /\ LET res == LogPreApiCall(Get(data[r], "model", NoneTop),
                                Get(data[r], "messages", NoneTop),
                                data[r])
       IN  /\ last' = [last EXCEPT ![r] =
                          [hook |-> "log", exc |-> res.exc,
                           raised |-> res.raised]]
           /\ log' = [log EXCEPT ![r] = @ \o res.logs]
           /\ pc' = [pc EXCEPT ![r] =
                        IF res.raised = "none" THEN "dispatched" ELSE "failed"]
    /\ pre' = [pre EXCEPT ![r] = data[r]]
    /\ UNCHANGED <<data, input, hist, plugins>>

Next ==
    \/ \E r \in Requests : CombineSystemMessages(r)
    \/ \E r \in Requests : RemoveName(r)
    \/ \E r \in Requests : LogPreApiCallStep(r)

Spec == Init /\ [][Next]_vars

SpecConc == InitConc /\ [][Next]_vars

(***************************************************************************)
(* Vocabulary of the properties.                                           *)
(***************************************************************************)
Messages(payload) == Get(payload, "messages", NoneTop)

HasList(payload) == Messages(payload).t = "list"

Items(payload) == Messages(payload).items

SystemMessage(e) ==
    /\ e.k = "dict"
    /\ "role" \in DOMAIN e.f
    /\ e.f["role"] = Str("system")

SystemsOf(payload) == SelectSeq(Items(payload), SystemMessage)

OthersOf(payload) == SelectSeq(Items(payload), LAMBDA e : ~SystemMessage(e))

AllRecords(payload) == \A i \in DOMAIN Items(payload) : Items(payload)[i].k = "dict"

HasName(e) == e.k = "dict" /\ "name" \in DOMAIN e.f

\* the position of the first system message of a list that holds one
FirstSystem(items) ==
    CHOOSE i \in DOMAIN items :
        SystemMessage(items[i]) /\ \A j \in 1..(i - 1) : ~SystemMessage(items[j])

TextContent(e) ==
    "content" \in DOMAIN e.f => e.f["content"].t = "str"

TextOf(e) == IF "content" \in DOMAIN e.f THEN e.f["content"].v ELSE ""

RECURSIVE Lines(_, _)
\* c1 + "\n" + c2 + ... + "\n" + cn of the first n messages of a list
Lines(msgs, n) ==
    IF n = 1 THEN TextOf(msgs[1])
    ELSE Lines(msgs, n - 1) \o "\n" \o TextOf(msgs[n])

\* the fields of a record other than `key`
Without(f, key) == [x \in DOMAIN f \ {key} |-> f[x]]

\* a call of hook h on request r has just returned or raised
Called(r, h) == last[r].hook = h

\* the merged payload the claim describes, for the hook's input p and output d
Merged(p, d, withContent) ==
    LET first == FirstSystem(Items(p))
    IN  /\ HasList(d)
        /\ Len(SystemsOf(d)) = 1
        /\ first \in DOMAIN Items(d)
        /\ SystemMessage(Items(d)[first])
        /\ Without(Items(d)[first].f, "content")
               = Without(Items(p)[first].f, "content")
        /\ withContent =>
               /\ "content" \in DOMAIN Items(d)[first].f
               /\ Items(d)[first].f["content"]
                      = Str(Lines(SystemsOf(p), Len(SystemsOf(p))))
        /\ OthersOf(d) = OthersOf(p)

(***************************************************************************)
(* C1  Merge correctness, as claimed: after the combine hook ran on a      *)
(* payload whose `messages` is a list of records holding N > 1 system      *)
(* messages, whatever their contents (text, structured or absent), the     *)
(* payload holds exactly one system message, at the first one's position   *)
(* with its other fields unchanged, the non-system messages keep their     *)
(* order, and (the contents being text or absent) its content is           *)
(* c1 + "\n" + ... + "\n" + cN.                                            *)
(***************************************************************************)
MergeCorrectness ==
    \A r \in DOMAIN data :
        (/\ Called(r, "combine")
         /\ HasList(pre[r])
         /\ AllRecords(pre[r])
         /\ Len(SystemsOf(pre[r])) > 1)
        => Merged(pre[r], data[r],
                  \A i \in DOMAIN SystemsOf(pre[r]) :
                      TextContent(SystemsOf(pre[r])[i]))

\* the part of C1 that the code keeps: the same, for system messages whose
\* contents are all text or absent
MergeCorrectnessOfText ==
    \A r \in DOMAIN data :
        (/\ Called(r, "combine")
         /\ HasList(pre[r])
         /\ AllRecords(pre[r])
         /\ Len(SystemsOf(pre[r])) > 1
         /\ \A i \in DOMAIN SystemsOf(pre[r]) : TextContent(SystemsOf(pre[r])[i]))
        => Merged(pre[r], data[r], TRUE)

(***************************************************************************)
(* C2  Fail-open containment: no call of the combine hook or of the        *)
(* remove-name hook raises to its caller, and a call in which a fault      *)
(* occurred leaves the payload as it was given.                            *)
(***************************************************************************)
FailOpen ==
    \A r \in DOMAIN data :
        (Called(r, "combine") \/ Called(r, "remove"))
        => /\ last[r].raised = "none"
           /\ pc[r] # "failed"
           /\ last[r].exc # "none" => data[r] = pre[r]

\* a fault in the combine hook on a list that holds two system messages
\* and an entry that is no record
FailOpenWitness ==
    \E r \in DOMAIN data :
        /\ Called(r, "combine")
        /\ last[r].exc = "AttributeError"
        /\ Len(SystemsOf(pre[r])) > 1
        /\ data[r] = pre[r]

(***************************************************************************)
(* C3  No-op conditions: the combine hook leaves the payload identical     *)
(* when `messages` is absent, is not a list, or holds 0 or 1 system        *)
(* messages.                                                               *)
(***************************************************************************)
NoOpConditions ==
    \A r \in DOMAIN data :
        (/\ Called(r, "combine")
         /\ \/ ~HasList(pre[r])
            \/ Len(SystemsOf(pre[r])) <= 1)
        => data[r] = pre[r]

\* the combine hook ran on a list of records with one system message,
\* which has no content, among other messages
NoOpConditionsWitness ==
    \E r \in DOMAIN data :
        /\ Called(r, "combine")
        /\ last[r].exc = "none"
        /\ HasList(pre[r])
        /\ Len(Items(pre[r])) > 1
        /\ Len(SystemsOf(pre[r])) = 1
        /\ "content" \notin DOMAIN SystemsOf(pre[r])[1].f

(***************************************************************************)
(* C4  Field stripping: after the remove-name hook ran on a payload whose  *)
(* `messages` is a list, no record of `messages` has the field `name`.     *)
(***************************************************************************)
NameStripped ==
    \A r \in DOMAIN data :
        (Called(r, "remove") /\ HasList(pre[r]))
        => /\ HasList(data[r])
           /\ \A i \in DOMAIN Items(data[r]) : ~HasName(Items(data[r])[i])

\* the hook ran on a list in which a system message had a name
NameStrippedWitness ==
    \E r \in DOMAIN data :
        /\ Called(r, "remove")
        /\ HasList(pre[r])
        /\ \E i \in DOMAIN Items(pre[r]) :
              HasName(Items(pre[r])[i]) /\ SystemMessage(Items(pre[r])[i])

(***************************************************************************)
(* C5  Frame of the remove-name hook: the payload's keys and its entries   *)
(* beside `messages` are unchanged, `messages` keeps its length and order, *)
(* every record keeps every field but `name`, and an entry that is no      *)
(* record or has no `name` is exactly as it was.                           *)
(***************************************************************************)
RemoveNameFrame ==
    \A r \in DOMAIN data :
        Called(r, "remove")
        => /\ DOMAIN data[r] = DOMAIN pre[r]
           /\ \A key \in DOMAIN pre[r] \ {"messages"} : data[r][key] = pre[r][key]
           /\ ~HasList(pre[r]) => data[r] = pre[r]
           /\ HasList(pre[r]) =>
                 /\ HasList(data[r])
                 /\ Len(Items(data[r])) = Len(Items(pre[r]))
                 /\ \A i \in DOMAIN Items(pre[r]) :
                       LET was == Items(pre[r])[i]
                           is == Items(data[r])[i]
                       IN  /\ is.k = was.k
                           /\ Without(is.f, "name") = Without(was.f, "name")
                           /\ ~HasName(was) => is = was

\* the hook ran on a list holding a named record, an unnamed one and an
\* entry that is no record
RemoveNameFrameWitness ==
    \E r \in DOMAIN data :
        /\ Called(r, "remove")
        /\ HasList(pre[r])
        /\ data[r] # pre[r]
        /\ \E i, j, k \in DOMAIN Items(pre[r]) :
              /\ HasName(Items(pre[r])[i])
              /\ Items(pre[r])[j].k = "dict" /\ ~HasName(Items(pre[r])[j])
              /\ Items(pre[r])[k].k # "dict"

(***************************************************************************)
(* C6  Idempotence: a second call of the same hook, right after the        *)
(* first, changes nothing (hook(hook(p)) = hook(p)), for the combine hook  *)
(* and for the remove-name hook.                                           *)
(***************************************************************************)
Idempotence ==
    \A r \in DOMAIN data :
        LET n == Len(hist[r])
        IN  (/\ n >= 2
             /\ hist[r][n] = hist[r][n - 1]
             /\ Called(r, hist[r][n]))
            => data[r] = pre[r]

\* the combine hook ran twice on a payload that its first call merged
IdempotenceWitness ==
    \E r \in DOMAIN data :
        /\ hist[r] = <<"combine", "combine">>
        /\ Called(r, "combine")
        /\ Len(SystemsOf(input[r])) > 1
        /\ data[r] # input[r]

(***************************************************************************)
(* C8  Other request parameters are untouched: whatever calls were made,   *)
(* the payload has the top-level keys it had, each entry other than        *)
(* `messages` has its value, and the logging call changed nothing of the   *)
(* payload.                                                                *)
(***************************************************************************)
OtherParamsUntouched ==
    \A r \in DOMAIN data :
        /\ DOMAIN data[r] = DOMAIN input[r]
        /\ \A key \in DOMAIN input[r] \ {"messages"} : data[r][key] = input[r][key]
        /\ Called(r, "log") => data[r] = pre[r]

\* the combine hook rewrote `messages`, and the request was then logged
OtherParamsUntouchedWitness ==
    \E r \in DOMAIN data :
        /\ Called(r, "log")
        /\ hist[r] = <<"combine">>
        /\ Items(data[r]) # Items(input[r])

RECURSIVE Alone(_, _)
\* the payload a request gets when the hooks of h are called on it alone
Alone(payload, h) ==
    IF Len(h) = 0 THEN payload
    ELSE LET before == Alone(payload, SubSeq(h, 1, Len(h) - 1))
         IN  IF h[Len(h)] = "combine"
             THEN CombineHook(before, "completion").data
             ELSE RemoveNameHook(before, "completion").data

(***************************************************************************)
(* C9  Request independence: with two requests in flight on the shared     *)
(* plugin instances, under every interleaving of the hook calls each       *)
(* request's payload is the one the same calls give it when it is          *)
(* processed alone, and no call changes the instances.                     *)
(***************************************************************************)
RequestIndependence ==
    /\ plugins = PluginInstances
    /\ \A r \in DOMAIN data : data[r] = Alone(input[r], hist[r])

\* two requests with distinct payloads, both rewritten by both hooks and
\* both dispatched
RequestIndependenceWitness ==
    /\ DOMAIN data = {1, 2}
    /\ input[1] # input[2]
    /\ \A r \in DOMAIN data :
          /\ pc[r] = "dispatched"
          /\ Len(hist[r]) = 2
          /\ hist[r][1] # hist[r][2]
          /\ Len(SystemsOf(input[r])) > 1
          /\ data[r] # input[r]
    /\ data[1] # data[2]

(***************************************************************************)
(* C10 Stage order does not change the outcome: combine then remove-name   *)
(* leaves the payload that remove-name then combine leaves, also when the  *)
(* combine hook fails open; and the removal by equality never removes a    *)
(* non-system message nor the first system message.                        *)
(***************************************************************************)
StageOrderIrrelevant ==
    \A r \in DOMAIN data :
        /\ hist[r] = <<"combine", "remove">>
               => data[r] = CombineHook(RemoveNameHook(input[r], "completion").data,
                                        "completion").data
        /\ hist[r] = <<"remove", "combine">>
               => data[r] = RemoveNameHook(CombineHook(input[r], "completion").data,
                                           "completion").data
        /\ (Called(r, "combine") /\ HasList(pre[r]))
               => /\ OthersOf(data[r]) = OthersOf(pre[r])
                  /\ Len(SystemsOf(pre[r])) >= 1 =>
                        /\ Len(SystemsOf(data[r])) >= 1
                        /\ FirstSystem(Items(data[r])) = FirstSystem(Items(pre[r]))

\* remove-name stripped a name from a system message and combine then
\* merged the system messages
StageOrderIrrelevantWitness ==
    \E r \in DOMAIN data :
        /\ hist[r] = <<"remove", "combine">>
        /\ Called(r, "combine")
        /\ \E i \in DOMAIN Items(input[r]) :
              HasName(Items(input[r])[i]) /\ SystemMessage(Items(input[r])[i])
        /\ Len(SystemsOf(input[r])) > 1
        /\ Len(SystemsOf(data[r])) = 1

(***************************************************************************)
(* C7  Serialization fault containment, as claimed: whenever json.dumps    *)
(* fails on the messages, for whatever reason, the logging call writes the *)
(* raw text of the messages instead and returns normally.                  *)
(***************************************************************************)
SerializationFaultContained ==
    \A r \in DOMAIN data :
        (Called(r, "log") /\ JsonDumps(Messages(data[r])).exc # "none")
        => /\ last[r].raised = "none"
           /\ pc[r] = "dispatched"
           /\ log[r][Len(log[r])]
                  = "INFO Messages (could not serialize to JSON): "
                        \o Format(Messages(data[r]))

\* the part of C7 that the code keeps: the same, when json.dumps fails
\* with a TypeError
TypeErrorContained ==
    \A r \in DOMAIN data :
        (Called(r, "log") /\ JsonDumps(Messages(data[r])).exc = "TypeError")
        => /\ last[r].raised = "none"
           /\ pc[r] = "dispatched"
           /\ log[r][Len(log[r])]
                  = "INFO Messages (could not serialize to JSON): "
                        \o Format(Messages(data[r]))

====
